---- MODULE Spec2Model ----
(***************************************************************************)
(* Model of the Crypto Naming Service binding (src/src/cns.ts): the domain *)
(* predicate, the namehash wrapper, and the asynchronous registry/resolver *)
(* lookups (resolver, owner, record, address, resolve) run by concurrent   *)
(* callers against a read-only backend, on a service object built by the   *)
(* constructor from a blockchain source.                                   *)
(*                                                                         *)
(* Strings are sequences of one-character strings; an opaque value (an     *)
(* address, a stored record) is a one-element sequence holding its text.   *)
(***************************************************************************)
EXTENDS Naturals, Integers, Sequences, FiniteSets, TLC

VARIABLES backend, service, pc, op, arg, local, log, result, pure

vars == <<backend, service, pc, op, arg, local, log, result, pure>>

---------------------------------------------------------------------------
(* Bounds *)

\* number of concurrent callers
NumProcs == 2
\* longest text put before a suffix when domains are enumerated
MaxPre == 3
\* deepest parent domain (labels before "crypto") used for childhash
MaxDepth == 2
\* longest label
MaxLabel == 2

Procs == 1..NumProcs

---------------------------------------------------------------------------
(* Strings *)

DOT == "."
LF == "\n"
Crypto == <<"c", "r", "y", "p", "t", "o">>
DotCrypto == <<DOT>> \o Crypto

\* JavaScript undefined and the empty string
Undefined == <<"<undefined>">>
EmptyStr == <<>>
\* a context field that is not set
NoField == <<"<unset>">>

RECURSIVE StringsUpTo(_, _)
StringsUpTo(alphabet, n) ==
  IF n = 0 THEN {<<>>}
  ELSE LET shorter == StringsUpTo(alphabet, n - 1)
       IN shorter \cup {<<c>> \o s : c \in alphabet, s \in {t \in shorter : Len(t) = n - 1}}

\* String.prototype.indexOf(".") : 0-based, -1 when there is none
IndexOfDot(s) ==
  IF \E i \in 1..Len(s) : s[i] = DOT
  THEN (CHOOSE i \in 1..Len(s) : s[i] = DOT /\ \A j \in 1..(i - 1) : s[j] # DOT) - 1
  ELSE -1

\* the regular expression /^.{1,}\.(crypto)$/ : "." matches any character
\* but a line terminator, "$" only the end of the input
RegexDotCrypto(s) ==
  LET k == Len(s) - Len(DotCrypto)
  IN /\ k >= 1
     /\ \A i \in 1..k : s[i] # LF
     /\ SubSeq(s, k + 1, Len(s)) = DotCrypto

\* String.prototype.split(".")
RECURSIVE Split(_)
Split(s) ==
  LET i == IndexOfDot(s)
  IN IF i = -1 THEN <<s>>
     ELSE <<SubSeq(s, 1, i)>> \o Split(SubSeq(s, i + 2, Len(s)))

UpperChar(c) ==
  CASE c = "b" -> "B"
    [] c = "e" -> "E"
    [] OTHER -> c

\* String.prototype.toUpperCase
RECURSIVE ToUpperCase(_)
ToUpperCase(s) ==
  IF s = <<>> THEN <<>> ELSE <<UpperChar(Head(s))>> \o ToUpperCase(Tail(s))

---------------------------------------------------------------------------
(* Errors and results *)

\* a structured ResolutionError, or (structured = FALSE) a plain Error
ResolutionError(kind, domain, recordName, currencyTicker) ==
  [structured |-> TRUE, kind |-> kind, domain |-> domain,
   recordName |-> recordName, currencyTicker |-> currencyTicker]

PlainError(name) ==
  [structured |-> FALSE, kind |-> name, domain |-> NoField,
   recordName |-> NoField, currencyTicker |-> NoField]

NoError == PlainError("<none>")

Return(v) == [tag |-> "return", value |-> v, err |-> NoError]
Throw(e) == [tag |-> "throw", value |-> Undefined, err |-> e]
Pending == [tag |-> "pending", value |-> Undefined, err |-> NoError]

---------------------------------------------------------------------------
(* Values exchanged with the backend *)

\* types.NullAddress : the two null-address sentinels
NullAddress == << <<"0x">>, <<"0x0000000000000000000000000000000000000000">> >>

isNullAddress(v) == \E i \in 1..Len(NullAddress) : NullAddress[i] = v

\* JavaScript "!v" on a string or undefined
Falsy(v) == v = Undefined \/ v = EmptyStr

\* a resolver contract address, an owner address, a stored record value
ResolverAddr == <<"0xBD5F5ec7ed5f19b53726344540296C02584A5237">>
OwnerAddr == <<"someowneraddress">>
StoredValue == <<"QmVaAtQbi3EtsfpKoLzALm6vXphdi2KjMgxEDKeGg6wHuK">>

\* RegistryMap.mainnet, the address the registry contract is built with
RegistryAddress == <<"0xD1E5b0FF1287aA9f9A268759062E4Ab08b9Dacbe">>

---------------------------------------------------------------------------
(* Namehash engine *)

ZERO_HASH == <<"0">>

\* the hash function H, collision free: a hash is the bracketed text hashed
H(bytes) == <<"H(">> \o bytes \o <<")">>

IsHash(v) == Len(v) > 0 /\ (v = ZERO_HASH \/ v[1] = "H(")

\* one step of the recursion: H(parent || H(label)); the prefix option is
\* the label normalisation the backend hashes with
childhashFn(parent, label, options) ==
  H(parent \o H(IF options.prefix THEN label ELSE <<"raw">> \o label))

RECURSIVE FoldLabels(_, _)
FoldLabels(labels, n) ==
  IF n = 0 THEN ZERO_HASH
  ELSE childhashFn(FoldLabels(labels, n - 1), labels[Len(labels) - n + 1],
                   [prefix |-> TRUE])

\* labels from the rightmost (the suffix) to the leftmost
hashFn(domain) == LET labels == Split(domain) IN FoldLabels(labels, Len(labels))

---------------------------------------------------------------------------
(* The naming service: synchronous part *)

\* isSupportedDomain without the test on the place of the first dot
isSupportedDomain_RegexOnly(domain) ==
  \/ domain = Crypto
  \/ RegexDotCrypto(domain)

isSupportedDomain(domain) ==
  \/ domain = Crypto
  \/ (IndexOfDot(domain) > 0 /\ RegexDotCrypto(domain))

ensureSupportedDomain(domain) ==
  IF isSupportedDomain(domain) THEN Return(Undefined)
  ELSE Throw(ResolutionError("UnsupportedDomain", domain, NoField, NoField))

namehash(domain) ==
  LET ensured == ensureSupportedDomain(domain)
  IN IF ensured.tag = "throw" THEN ensured ELSE Return(hashFn(domain))

DefaultOptions == [prefix |-> TRUE]

\* childhash handing on the opposite of the option it is given
childhash_FlipsPrefix(parent, label, options) ==
  childhashFn(parent, label, [prefix |-> ~options.prefix])

childhash(parent, label, options) == childhashFn(parent, label, options)

resolve(domain) == Throw(PlainError("This method is unsupported for CNS"))

---------------------------------------------------------------------------
(* The contract-call transport and the read-only backend *)

Ok(v) == [ok |-> TRUE, val |-> v, err |-> NoError]
Fail(e) == [ok |-> FALSE, val |-> Undefined, err |-> e]

\* failures the transport raises itself
TransportRecordNotFound == ResolutionError("RecordNotFound", NoField, NoField, NoField)
TransportDown == ResolutionError("NamingServiceDown", NoField, NoField, NoField)

\* buildContract(interface, address)
buildContract(interface, address) == [interface |-> interface, address |-> address]

\* a contract field that was never assigned
NoContract == buildContract("<undefined>", Undefined)

\* networks and provider urls a source names
Mainnet == <<"mainnet">>
Ropsten == <<"ropsten">>
InfuraUrl == <<"https://mainnet.infura.io">>
CustomRegistry == <<"0x1111111111111111111111111111111111111111">>

\* RegistryMap[network]
RegistryMap(network) == IF network = Mainnet THEN RegistryAddress ELSE Undefined

\* the service object: not yet built, built, or the constructor threw
Service(state, source, registryAddress, contract, error) ==
  [state |-> state, network |-> source.network, url |-> source.url,
   registryAddress |-> registryAddress, registryContract |-> contract,
   error |-> error]

NoSource == [network |-> NoField, url |-> NoField, registry |-> NoField]
NotConstructed == Service("none", NoSource, NoField, NoContract, NoError)

\* constructor(source), on the source normalizeSource hands back
constructor(source) ==
  IF Falsy(source.network)
  THEN Service("failed", source, Undefined, NoContract,
               PlainError("Unspecified network in Resolution CNS configuration"))
  ELSE IF Falsy(source.url)
  THEN Service("failed", source, Undefined, NoContract,
               PlainError("Unspecified url in Resolution CNS configuration"))
  ELSE LET registryAddress ==
             IF ~Falsy(source.registry) THEN source.registry
             ELSE RegistryMap(source.network)
       IN Service("constructed", source, registryAddress,
                  IF ~Falsy(registryAddress)
                  THEN buildContract("cnsInterface", registryAddress)
                  ELSE NoContract,
                  NoError)

\* the sources normalizeSource hands back
Sources ==
  [network : {Mainnet, Ropsten, Undefined, EmptyStr},
   url : {InfuraUrl, Undefined, EmptyStr},
   registry : {Undefined, CustomRegistry}]

\* the service of the callers below: mainnet, registry from RegistryMap
DefaultSource == [network |-> Mainnet, url |-> InfuraUrl, registry |-> Undefined]
DefaultService == constructor(DefaultSource)

\* this.registryContract
registryContract == service.registryContract

Request(contract, method, params) ==
  [contract |-> contract, method |-> method, params |-> params]

\* record keys
IpfsKey ==
  <<"i", "p", "f", "s", ".", "h", "t", "m", "l", ".", "v", "a", "l", "u", "e">>
EmailKey ==
  <<"w", "h", "o", "i", "s", ".", "e", "m", "a", "i", "l", ".", "v", "a", "l", "u", "e">>
RedirectKey ==
  <<"i", "p", "f", "s", ".", "r", "e", "d", "i", "r", "e", "c", "t", "_">> \o
  <<"d", "o", "m", "a", "i", "n", ".", "v", "a", "l", "u", "e">>
CryptoDot == Crypto \o <<DOT>>
DotAddress == <<DOT, "a", "d", "d", "r", "e", "s", "s">>

\* the keys the resolver contract holds a record under
StoredKeys == {IpfsKey, EmailKey, RedirectKey, CryptoDot \o <<"B">> \o DotAddress}

ResolverOfOutcomes ==
  {Ok(ResolverAddr), Ok(NullAddress[2]), Fail(TransportRecordNotFound), Fail(TransportDown)}
OwnerOfOutcomes ==
  {Ok(OwnerAddr), Ok(NullAddress[2]), Ok(Undefined), Fail(TransportDown)}
GetOutcomes ==
  {Ok(StoredValue), Ok(EmptyStr), Ok(Undefined), Ok(NullAddress[1]), Ok(NullAddress[2]),
   Fail(TransportRecordNotFound), Fail(TransportDown)}
\* what a get on a contract built from no resolver address comes back with
NoContractOutcomes == {Ok(Undefined), Fail(TransportRecordNotFound), Fail(TransportDown)}

\* the registry and resolver contracts' state, as the transport answers:
\* resolverOf / ownerOf of a node hash, resolverOf of a token id that is no
\* node hash, get of a stored key, get on a contract with no address
Backends ==
  [resolverOf : ResolverOfOutcomes, resolverOfRaw : ResolverOfOutcomes,
   ownerOf : OwnerOfOutcomes, get : GetOutcomes, getNoContract : NoContractOutcomes]

\* the answer of the backend to one contract call
callMethod(request) ==
  CASE request.contract = NoContract -> Fail(PlainError("TypeError"))
    [] request.method = "resolverOf" ->
         IF IsHash(request.params[1]) THEN backend.resolverOf ELSE backend.resolverOfRaw
    [] request.method = "ownerOf" -> backend.ownerOf
    [] OTHER ->
         IF request.contract.address # ResolverAddr THEN backend.getNoContract
         ELSE IF request.params[1] \in StoredKeys THEN backend.get
         ELSE Ok(EmptyStr)

\* run an operation; a failure of exactly this kind becomes an absent result
ignoreResolutionError(kind, outcome) ==
  IF ~outcome.ok /\ outcome.err.structured /\ outcome.err.kind = kind
  THEN Ok(Undefined)
  ELSE outcome

---------------------------------------------------------------------------
(* The naming service: asynchronous operations, one operator per stretch   *)
(* of code between two awaits.  A stretch ends awaiting a contract call    *)
(* (Await) or settles the operation's promise (Finish).                    *)

NoRequest == Request(buildContract("none", Undefined), "none", <<>>)

\* what a suspended operation holds: its token id, the resolver it found and
\* the contract call it awaits
NoLocal == [tokenId |-> Undefined, resolver |-> Undefined, pending |-> NoRequest]

Await(at, request, loc) ==
  [pc |-> at, calls |-> <<request>>, local |-> [loc EXCEPT !.pending = request],
   result |-> Pending]
Finish(res) == [pc |-> "done", calls |-> <<>>, local |-> NoLocal, result |-> res]

\* getResolver: the registry call it issues, and how its answer settles
\* getResolver asking the registry for the owner instead of the resolver
getResolver_AsksOwner(tokenId) == Request(registryContract, "ownerOf", <<tokenId>>)

getResolver(tokenId) == Request(registryContract, "resolverOf", <<tokenId>>)

\* getResolver downgrading another kind of failure than RecordNotFound
getResolverSettled_OtherKind(outcome) ==
  ignoreResolutionError("UnregisteredDomain", outcome)

\* getResolver turning every failure into an absent resolver
getResolverSettled_AnyFailure(outcome) == IF outcome.ok THEN outcome ELSE Ok(Undefined)

getResolverSettled(outcome) == ignoreResolutionError("RecordNotFound", outcome)

\* getRecord: the resolver call it issues
getRecord(contract, methodname, params) == Request(contract, methodname, params)

\* owner(domain)
ownerCall(domain) ==
  LET tokenId == namehash(domain)
  IN IF tokenId.tag = "throw" THEN Finish(tokenId)
     ELSE Await("ownerOf", Request(registryContract, "ownerOf", <<tokenId.value>>),
                [NoLocal EXCEPT !.tokenId = tokenId.value])

ownerSettled(outcome) == IF outcome.ok THEN Return(outcome.val) ELSE Throw(outcome.err)

\* record asking the resolver contract before any resolver is discovered
recordCall_NoDiscovery(domain, key) ==
  LET tokenId == namehash(domain)
  IN IF tokenId.tag = "throw" THEN Finish(tokenId)
     ELSE Await("get",
                getRecord(buildContract("resolverInterface", Undefined), "get",
                          <<key, tokenId.value>>),
                [NoLocal EXCEPT !.tokenId = tokenId.value])

\* record sharing the resolverOf call another caller already awaits
recordCall_Deduplicated(domain, key) ==
  LET tokenId == namehash(domain)
  IN IF tokenId.tag = "throw" THEN Finish(tokenId)
     ELSE LET step == Await("resolverOf", getResolver(tokenId.value),
                            [NoLocal EXCEPT !.tokenId = tokenId.value])
          IN IF \E q \in Procs :
                  pc[q] = "resolverOf" /\ local[q].pending = getResolver(tokenId.value)
             THEN [step EXCEPT !.calls = <<>>]
             ELSE step

\* record(domain, key)
recordCall(domain, key) ==
  LET tokenId == namehash(domain)
  IN IF tokenId.tag = "throw" THEN Finish(tokenId)
     ELSE Await("resolverOf", getResolver(tokenId.value),
                [NoLocal EXCEPT !.tokenId = tokenId.value])

recordGotResolver(domain, key, loc, outcome) ==
  LET resolver == getResolverSettled(outcome)
  IN IF ~resolver.ok THEN Finish(Throw(resolver.err))
     ELSE Await("get",
                getRecord(buildContract("resolverInterface", resolver.val), "get",
                          <<key, loc.tokenId>>),
                [loc EXCEPT !.resolver = resolver.val])

\* record without the null-address check
recordGotRecord_NoNullCheck(domain, key, outcome) ==
  IF ~outcome.ok THEN Throw(outcome.err)
  ELSE IF Falsy(outcome.val)
       THEN Throw(ResolutionError("RecordNotFound", domain, key, NoField))
       ELSE Return(outcome.val)

\* record handing back whatever the resolver contract answers
recordGotRecord_Unchecked(domain, key, outcome) ==
  IF ~outcome.ok THEN Throw(outcome.err) ELSE Return(outcome.val)

recordGotRecord(domain, key, outcome) ==
  IF ~outcome.ok THEN Throw(outcome.err)
  ELSE IF Falsy(outcome.val) \/ isNullAddress(outcome.val)
       THEN Throw(ResolutionError("RecordNotFound", domain, key, NoField))
       ELSE Return(outcome.val)

\* fetchAddress(resolver, tokenId, coinName)
addrKey(coinName) == CryptoDot \o ToUpperCase(coinName) \o DotAddress

fetchAddress(resolver, tokenId, coinName) ==
  IF coinName = Undefined THEN Finish(Throw(PlainError("TypeError")))
  ELSE Await("get",
             getRecord(buildContract("resolverInterface", resolver), "get",
                       <<addrKey(coinName), tokenId>>),
             [NoLocal EXCEPT !.tokenId = tokenId, !.resolver = resolver])

\* address(domain, currencyTicker)
addressCall(domain, currencyTicker) == Await("resolverOf", getResolver(domain), NoLocal)

addressGotResolver(domain, currencyTicker, outcome) ==
  LET resolver == getResolverSettled(outcome)
      tokenId == namehash(domain)
  IN IF ~resolver.ok THEN Finish(Throw(resolver.err))
     ELSE IF tokenId.tag = "throw" THEN Finish(tokenId)
     ELSE fetchAddress(resolver.val, tokenId.value, currencyTicker)

addressGotAddr(domain, currencyTicker, outcome) ==
  IF ~outcome.ok THEN Throw(outcome.err)
  ELSE IF Falsy(outcome.val)
       THEN Throw(ResolutionError("UnspecifiedCurrency", domain, NoField, currencyTicker))
       ELSE Return(outcome.val)

\* resolver(domain): resolver discovery, with the owner looked up only when
\* no resolver is found
resolverCall(domain) ==
  LET tokenId == namehash(domain)
  IN IF tokenId.tag = "throw" THEN Finish(tokenId)
     ELSE Await("resolverOf", getResolver(tokenId.value),
                [NoLocal EXCEPT !.tokenId = tokenId.value])

resolverGotResolver(domain, loc, outcome) ==
  LET resolver == getResolverSettled(outcome)
  IN IF ~resolver.ok THEN Finish(Throw(resolver.err))
     ELSE IF ~Falsy(resolver.val) /\ ~isNullAddress(resolver.val)
          THEN Finish(Return(resolver.val))
          ELSE ownerCall(domain)

resolverGotOwner(domain, outcome) ==
  LET owner == ownerSettled(outcome)
  IN IF owner.tag = "throw" THEN owner
     ELSE IF Falsy(owner.value) \/ isNullAddress(owner.value)
          THEN Throw(ResolutionError("UnregisteredDomain", domain, NoField, NoField))
          ELSE Throw(ResolutionError("UnspecifiedResolver", domain, NoField, NoField))

---------------------------------------------------------------------------
(* Callers *)

DomA == <<"a">> \o DotCrypto
DomB == <<"b">> \o DotCrypto
DomZil == <<"a", DOT, "z", "i", "l">>

\* the domains, record keys and tickers callers pass
Domains == {Crypto, DomA, DotCrypto, DomZil}
RecordKeys == {IpfsKey, addrKey(<<"B">>), CryptoDot \o <<"b">> \o DotAddress}
Tickers == {<<"b">>, <<"B">>, EmptyStr, Undefined}

Ops ==
  {"resolver", "owner", "record", "address", "namehash", "resolve",
   "ipfsHash", "email", "httpUrl"}

Args(domain, key, ticker) == [domain |-> domain, key |-> key, ticker |-> ticker]
NoArgs == Args(NoField, NoField, NoField)

CallsOf(domains, keys, tickers) ==
  [resolver |-> {Args(d, NoField, NoField) : d \in domains},
   owner |-> {Args(d, NoField, NoField) : d \in domains},
   namehash |-> {Args(d, NoField, NoField) : d \in domains},
   resolve |-> {Args(d, NoField, NoField) : d \in domains},
   record |-> {Args(d, k, NoField) : d \in domains, k \in keys},
   address |-> {Args(d, NoField, t) : d \in domains, t \in tickers},
   ipfsHash |-> {Args(d, NoField, NoField) : d \in domains},
   email |-> {Args(d, NoField, NoField) : d \in domains},
   httpUrl |-> {Args(d, NoField, NoField) : d \in domains}]

\* ipfsHash(domain), email(domain), httpUrl(domain): the call of record each
\* one makes and awaits
ipfsHash(domain) == Args(domain, IpfsKey, NoField)

email(domain) == Args(domain, EmailKey, NoField)

\* httpUrl reading the key of ipfsHash
httpUrl_IpfsKey(domain) == Args(domain, IpfsKey, NoField)

httpUrl(domain) == Args(domain, RedirectKey, NoField)

\* the operations that run record, and the arguments record runs with
RecordOps == {"record", "ipfsHash", "email", "httpUrl"}
RecordArgs(o, a) ==
  CASE o = "ipfsHash" -> ipfsHash(a.domain)
    [] o = "email" -> email(a.domain)
    [] o = "httpUrl" -> httpUrl(a.domain)
    [] OTHER -> a

\* the code an operation runs when it is called, up to its first await
StartStep(o, a) ==
  CASE o = "resolver" -> resolverCall(a.domain)
    [] o = "owner" -> ownerCall(a.domain)
    [] o \in RecordOps -> recordCall(RecordArgs(o, a).domain, RecordArgs(o, a).key)
    [] o = "address" -> addressCall(a.domain, a.ticker)
    [] o = "namehash" -> Finish(namehash(a.domain))
    [] OTHER -> Finish(resolve(a.domain))

\* the code an operation runs when the contract call it awaits comes back
ResumeStep(o, a, at, loc, outcome) ==
  CASE at = "resolverOf" /\ o = "resolver" -> resolverGotResolver(a.domain, loc, outcome)
    [] at = "resolverOf" /\ o \in RecordOps ->
         recordGotResolver(RecordArgs(o, a).domain, RecordArgs(o, a).key, loc, outcome)
    [] at = "resolverOf" /\ o = "address" -> addressGotResolver(a.domain, a.ticker, outcome)
    [] at = "ownerOf" /\ o = "owner" -> Finish(ownerSettled(outcome))
    [] at = "ownerOf" /\ o = "resolver" -> Finish(resolverGotOwner(a.domain, outcome))
    [] at = "get" /\ o \in RecordOps ->
         Finish(recordGotRecord(RecordArgs(o, a).domain, RecordArgs(o, a).key, outcome))
    [] OTHER -> Finish(addressGotAddr(a.domain, a.ticker, outcome))

Apply(p, step) ==
  /\ pc' = [pc EXCEPT ![p] = step.pc]
  /\ log' = [log EXCEPT ![p] = log[p] \o step.calls]
  /\ local' = [local EXCEPT ![p] = IF step.pc = "done" THEN local[p] ELSE step.local]
  /\ result' = [result EXCEPT ![p] = step.result]

Call(p, ops, domains, keys, tickers) ==
  /\ service.state = "constructed"
  /\ pc[p] = "idle"
  /\ \E o \in ops : \E a \in CallsOf(domains, keys, tickers)[o] :
       /\ op' = [op EXCEPT ![p] = o]
       /\ arg' = [arg EXCEPT ![p] = a]
       /\ log' = [log EXCEPT ![p] = StartStep(o, a).calls]
       /\ pc' = [pc EXCEPT ![p] = StartStep(o, a).pc]
       /\ local' = [local EXCEPT ![p] = StartStep(o, a).local]
       /\ result' = [result EXCEPT ![p] = StartStep(o, a).result]
  /\ UNCHANGED <<backend, service, pure>>

\* new Cns(source)
Construct ==
  /\ service.state = "none"
  /\ \E source \in Sources : service' = constructor(source)
  /\ UNCHANGED <<backend, pc, op, arg, local, log, result, pure>>

\* the awaited contract call comes back and the operation runs on
Resume(p, at) ==
  Apply(p, ResumeStep(op[p], arg[p], at, local[p], callMethod(local[p].pending)))

ResolverOfReturns(p) ==
  /\ pc[p] = "resolverOf"
  /\ Resume(p, "resolverOf")
  /\ UNCHANGED <<backend, service, op, arg, pure>>

OwnerOfReturns(p) ==
  /\ pc[p] = "ownerOf"
  /\ Resume(p, "ownerOf")
  /\ UNCHANGED <<backend, service, op, arg, pure>>

GetReturns(p) ==
  /\ pc[p] = "get"
  /\ Resume(p, "get")
  /\ UNCHANGED <<backend, service, op, arg, pure>>

\* the caller takes the settled promise; it may call again
Release(p) ==
  /\ pc[p] = "done"
  /\ pc' = [pc EXCEPT ![p] = "idle"]
  /\ op' = [op EXCEPT ![p] = "none"]
  /\ arg' = [arg EXCEPT ![p] = NoArgs]
  /\ local' = [local EXCEPT ![p] = NoLocal]
  /\ log' = [log EXCEPT ![p] = <<>>]
  /\ result' = [result EXCEPT ![p] = Pending]
  /\ UNCHANGED <<backend, service, pure>>

\* the inputs of the concurrent callers
ConcDomains == {DomA, DomB}
ConcKeys == {addrKey(<<"B">>)}
ConcTickers == {<<"b">>}
ConcOps == {"resolver", "owner", "record", "address"}

\* the inputs of the synchronous functions
Suffixes == {EmptyStr, Crypto, DotCrypto, DotCrypto \o <<"a">>, <<DOT, "c">>}
TestDomains ==
  {pre \o suf : pre \in StringsUpTo({"a", DOT, LF}, MaxPre), suf \in Suffixes}

\* labels: non-empty, without a dot or a line terminator
Labels == StringsUpTo({"a", "-"}, MaxLabel) \ {EmptyStr}

RECURSIVE DomainsOfDepth(_)
DomainsOfDepth(n) ==
  IF n = 0 THEN {Crypto}
  ELSE {l \o <<DOT>> \o d : l \in Labels, d \in DomainsOfDepth(n - 1)}

ParentDomains == UNION {DomainsOfDepth(n) : n \in 0..MaxDepth}

\* every set of inputs is enumerated, and holds an input, before a caller
\* draws from it
InputSets ==
  {Domains, RecordKeys, Tickers, ConcDomains, ConcKeys, ConcTickers, TestDomains,
   Labels \cup {Crypto}, ParentDomains}
InputsGiven ==
  /\ \A inputs \in InputSets : Cardinality(inputs) > 0
  /\ Cardinality(Ops) > 0 /\ Cardinality(ConcOps) > 0
  /\ Cardinality(Sources) > 0

NoPure == [fn |-> "none", domain |-> NoField, parent |-> NoField, label |-> NoField,
           supported |-> FALSE, out |-> Pending]

Idle ==
  /\ pc = [p \in Procs |-> "idle"]
  /\ op = [p \in Procs |-> "none"]
  /\ arg = [p \in Procs |-> NoArgs]
  /\ local = [p \in Procs |-> NoLocal]
  /\ log = [p \in Procs |-> <<>>]
  /\ result = [p \in Procs |-> Pending]

(* One caller, every operation, every backend *)

SingleCaller == {1}

Init ==
  /\ backend \in Backends
  /\ service = DefaultService
  /\ Idle
  /\ pure = NoPure
  /\ InputsGiven

Next ==
  \E p \in SingleCaller :
    \/ Call(p, Ops, Domains, RecordKeys, Tickers)
    \/ ResolverOfReturns(p)
    \/ OwnerOfReturns(p)
    \/ GetReturns(p)
    \/ Release(p)

Spec == Init /\ [][Next]_vars

(* Concurrent callers of the asynchronous lookups *)


ConcBackends ==
  {b \in Backends :
     /\ b.getNoContract = Ok(Undefined)
     /\ b.resolverOfRaw \in {Ok(ResolverAddr), Fail(TransportDown)}
     /\ b.get \in {Ok(StoredValue), Ok(NullAddress[2]), Fail(TransportRecordNotFound)}}

InitConc ==
  /\ backend \in ConcBackends
  /\ service = DefaultService
  /\ Idle
  /\ pure = NoPure
  /\ InputsGiven

NextConc ==
  \E p \in Procs :
    \/ Call(p, ConcOps, ConcDomains, ConcKeys, ConcTickers)
    \/ ResolverOfReturns(p)
    \/ OwnerOfReturns(p)
    \/ GetReturns(p)
    \/ Release(p)

SpecConc == InitConc /\ [][NextConc]_vars

(* The synchronous functions applied to enumerated inputs *)

IsSupportedDomainCall ==
  /\ pure = NoPure
  /\ \E d \in TestDomains :
       pure' = [NoPure EXCEPT !.fn = "isSupportedDomain", !.domain = d,
                              !.supported = isSupportedDomain(d)]
  /\ UNCHANGED <<backend, service, pc, op, arg, local, log, result>>

NamehashCall ==
  /\ pure = NoPure
  /\ \E d \in TestDomains \cup ParentDomains :
       pure' = [NoPure EXCEPT !.fn = "namehash", !.domain = d, !.out = namehash(d)]
  /\ UNCHANGED <<backend, service, pc, op, arg, local, log, result>>

\* childhash on the hash of a parent domain, or on the root hash
ChildhashCall ==
  /\ pure = NoPure
  /\ \E parent \in [domain : ParentDomains, hash : {ZERO_HASH}] \cup
                   {[domain |-> NoField, hash |-> ZERO_HASH]} :
       \E label \in Labels \cup {Crypto} :
         LET parentHash == IF parent.domain = NoField THEN ZERO_HASH
                           ELSE namehash(parent.domain).value
         IN pure' = [NoPure EXCEPT
                       !.fn = "childhash", !.domain = parent.domain,
                       !.parent = parentHash, !.label = label,
                       !.out = Return(childhash(parentHash, label, DefaultOptions))]
  /\ UNCHANGED <<backend, service, pc, op, arg, local, log, result>>

\* the caller takes the value; it may call again
PureReturns ==
  /\ pure # NoPure
  /\ pure' = NoPure
  /\ UNCHANGED <<backend, service, pc, op, arg, local, log, result>>

InitPure ==
  /\ backend = CHOOSE b \in Backends : TRUE
  /\ service = DefaultService
  /\ Idle
  /\ pure = NoPure
  /\ InputsGiven

NextPure == IsSupportedDomainCall \/ NamehashCall \/ ChildhashCall \/ PureReturns

SpecPure == InitPure /\ [][NextPure]_vars

(* A service built from any source, then used by one caller *)

ConsBackends ==
  {b \in ConcBackends :
     /\ b.resolverOfRaw = Ok(ResolverAddr)
     /\ b.get = Ok(StoredValue)}

InitCons ==
  /\ backend \in ConsBackends
  /\ service = NotConstructed
  /\ Idle
  /\ pure = NoPure
  /\ InputsGiven

NextCons ==
  \/ Construct
  \/ \E p \in SingleCaller :
       \/ Call(p, ConcOps, ConcDomains, ConcKeys, ConcTickers)
       \/ ResolverOfReturns(p)
       \/ OwnerOfReturns(p)
       \/ GetReturns(p)
       \/ Release(p)

SpecCons == InitCons /\ [][NextCons]_vars

---------------------------------------------------------------------------
(* Properties *)

Done(p, o) == pc[p] = "done" /\ op[p] = o

Failed(p, kind) ==
  /\ result[p].tag = "throw"
  /\ result[p].err.structured
  /\ result[p].err.kind = kind

IsGet(request) == request.method = "get"
IssuedGet(p) == \E i \in 1..Len(log[p]) : IsGet(log[p][i])
IssuedOwnerOf(p) == \E i \in 1..Len(log[p]) : log[p][i].method = "ownerOf"

\* what the registry holds for a node: a resolver, or none (a null address,
\* or a lookup that finds nothing)
ResolverPresent == backend.resolverOf = Ok(ResolverAddr)
ResolverAbsent ==
  backend.resolverOf \in {Ok(NullAddress[2]), Fail(TransportRecordNotFound)}
OwnerPresent == backend.ownerOf = Ok(OwnerAddr)
OwnerAbsent == backend.ownerOf \in {Ok(Undefined), Ok(NullAddress[2])}

EmptyOrNull(v) == v \in {EmptyStr, Undefined, NullAddress[1], NullAddress[2]}

\* C1: resolver(domain) on a supported domain returns the registry's resolver
\* when there is one, fails with UnregisteredDomain when there is neither a
\* resolver nor an owner, and with UnspecifiedResolver when there is an owner
\* but no resolver.
C1_ResolverOutcomes ==
  \A p \in Procs :
    (Done(p, "resolver") /\ isSupportedDomain(arg[p].domain)) =>
      /\ ResolverPresent => result[p] = Return(ResolverAddr)
      /\ (ResolverAbsent /\ OwnerAbsent) =>
           result[p] =
             Throw(ResolutionError("UnregisteredDomain", arg[p].domain, NoField, NoField))
      /\ (ResolverAbsent /\ OwnerPresent) =>
           result[p] =
             Throw(ResolutionError("UnspecifiedResolver", arg[p].domain, NoField, NoField))

C1_Witness ==
  \E p \in Procs :
    /\ Done(p, "resolver") /\ isSupportedDomain(arg[p].domain)
    /\ backend.resolverOf = Fail(TransportRecordNotFound) /\ OwnerPresent
    /\ Failed(p, "UnspecifiedResolver")

\* C2 as stated: record issues get only once resolverOf has returned a
\* present, non-null resolver; with the resolver absent it issues no get and
\* fails with UnregisteredDomain or UnspecifiedResolver.
C2_GetOnlyWithResolver ==
  \A p \in Procs :
    (op[p] = "record" /\ isSupportedDomain(arg[p].domain)) =>
      /\ IssuedGet(p) => ResolverPresent
      /\ (pc[p] = "done" /\ ResolverAbsent) =>
           /\ ~IssuedGet(p)
           /\ OwnerAbsent => Failed(p, "UnregisteredDomain")
           /\ OwnerPresent => Failed(p, "UnspecifiedResolver")

\* C2 amended: record issues resolverOf(namehash(domain)) first and get only
\* after it has come back; it goes on to get whether the resolver is
\* present, null or absent, stops only when resolverOf fails otherwise,
\* never asks for the owner, and never fails with UnregisteredDomain or
\* UnspecifiedResolver.
C2_GetAfterResolverOf ==
  \A p \in Procs :
    (op[p] = "record" /\ isSupportedDomain(arg[p].domain)) =>
      /\ ~IssuedOwnerOf(p)
      /\ ~Failed(p, "UnregisteredDomain") /\ ~Failed(p, "UnspecifiedResolver")
      /\ Len(log[p]) >= 1 /\ Len(log[p]) <= 2
      /\ log[p][1] =
           Request(registryContract, "resolverOf", <<namehash(arg[p].domain).value>>)
      /\ pc[p] = "resolverOf" => ~IssuedGet(p)
      /\ IssuedGet(p) =>
           /\ Len(log[p]) = 2 /\ IsGet(log[p][2])
           /\ backend.resolverOf # Fail(TransportDown)
      /\ (pc[p] = "done" /\ (ResolverPresent \/ ResolverAbsent)) => IssuedGet(p)
      /\ (pc[p] = "done" /\ backend.resolverOf = Fail(TransportDown)) =>
           /\ ~IssuedGet(p)
           /\ result[p] = Throw(TransportDown)

C2_Witness ==
  \E p \in Procs :
    /\ Done(p, "record") /\ isSupportedDomain(arg[p].domain)
    /\ backend.resolverOf = Fail(TransportRecordNotFound)
    /\ IssuedGet(p)
    /\ Failed(p, "RecordNotFound")

\* the answer of the last contract call a caller issued
LastAnswer(p) == callMethod(log[p][Len(log[p])])

\* C3: when the resolver's get comes back empty or with a null-address
\* sentinel, record fails with RecordNotFound carrying the key and the
\* domain; otherwise it returns the value as it came; it never returns an
\* empty or null-address value.
C3_RecordValidated ==
  \A p \in Procs :
    Done(p, "record") =>
      /\ (IssuedGet(p) /\ LastAnswer(p).ok) =>
           IF EmptyOrNull(LastAnswer(p).val)
           THEN result[p] =
                  Throw(ResolutionError("RecordNotFound", arg[p].domain, arg[p].key,
                                        NoField))
           ELSE result[p] = Return(LastAnswer(p).val)
      /\ result[p].tag = "return" => ~EmptyOrNull(result[p].value)

C3_Witness ==
  \E p \in Procs :
    /\ Done(p, "record") /\ ResolverPresent
    /\ IssuedGet(p) /\ LastAnswer(p) = Ok(NullAddress[2])
    /\ Failed(p, "RecordNotFound")
    /\ result[p].err.recordName = arg[p].key

\* the record key the address of a ticker is kept under
DerivedKey(ticker) == CryptoDot \o ToUpperCase(ticker) \o DotAddress

GivenTicker(ticker) == ticker # Undefined /\ ticker # EmptyStr

\* C4 as stated: address(domain, ticker) with a non-empty ticker issues the
\* contract calls of record(domain, "crypto." + uppercase(ticker) +
\* ".address"), succeeds with the same value whenever record succeeds, and
\* succeeds only when record does.
C4_AddressIsRecord ==
  \A p, q \in Procs :
    (/\ Done(p, "address") /\ Done(q, "record")
     /\ isSupportedDomain(arg[p].domain)
     /\ arg[p].domain = arg[q].domain
     /\ GivenTicker(arg[p].ticker)
     /\ arg[q].key = DerivedKey(arg[p].ticker)) =>
      /\ log[p] = log[q]
      /\ result[q].tag = "return" => result[p] = result[q]
      /\ result[p].tag = "return" => result[q].tag = "return"

\* what the resolver contract answers for a key
Stored(key) == IF key \in StoredKeys THEN backend.get ELSE Ok(EmptyStr)

\* the registry holds an owner and a resolver for the domain, whatever the
\* token id it is asked with
Registered ==
  /\ ResolverPresent /\ OwnerPresent
  /\ backend.resolverOfRaw = Ok(ResolverAddr)

\* C5 as stated: on a supported, registered domain with a resolver, address
\* fails with UnspecifiedCurrency carrying the domain and the ticker whenever
\* the ticker is empty or missing, or the derived record is absent, empty or
\* a null-address sentinel.
C5_UnspecifiedCurrency ==
  \A p \in Procs :
    (/\ Done(p, "address") /\ isSupportedDomain(arg[p].domain) /\ Registered
     /\ \/ ~GivenTicker(arg[p].ticker)
        \/ /\ Stored(DerivedKey(arg[p].ticker)).ok
           /\ EmptyOrNull(Stored(DerivedKey(arg[p].ticker)).val)) =>
      result[p] =
        Throw(ResolutionError("UnspecifiedCurrency", arg[p].domain, NoField,
                              arg[p].ticker))

\* C6 as stated: on an unsupported domain namehash, owner, record and address
\* fail with UnsupportedDomain and issue no contract call.
C6_UnsupportedBeforeTransport ==
  \A p \in Procs :
    (/\ op[p] \in {"namehash", "owner", "record", "address"}
     /\ ~isSupportedDomain(arg[p].domain)) =>
      /\ log[p] = <<>>
      /\ pc[p] = "done"
      /\ result[p] =
           Throw(ResolutionError("UnsupportedDomain", arg[p].domain, NoField, NoField))

\* the labels of the text before the suffix ".crypto"
EndsInDotCrypto(d) ==
  Len(d) >= Len(DotCrypto) /\ SubSeq(d, Len(d) - Len(DotCrypto) + 1, Len(d)) = DotCrypto
BeforeDotCrypto(d) == SubSeq(d, 1, Len(d) - Len(DotCrypto))

\* C7 as stated: isSupportedDomain is true exactly for "crypto" and for the
\* domains that end in ".crypto" with at least one non-empty label before it.
C7_SupportedIffLabelBeforeSuffix ==
  pure.fn = "isSupportedDomain" =>
    (pure.supported <=>
       \/ pure.domain = Crypto
       \/ /\ EndsInDotCrypto(pure.domain)
          /\ \E i \in 1..Len(Split(BeforeDotCrypto(pure.domain))) :
               Split(BeforeDotCrypto(pure.domain))[i] # EmptyStr)

\* C7 amended: isSupportedDomain is true exactly for "crypto" and for the
\* domains that end in ".crypto", whose first label is not empty, and that
\* hold no line terminator before ".crypto".
C7_SupportedIffFirstLabel ==
  pure.fn = "isSupportedDomain" =>
    (pure.supported <=>
       \/ pure.domain = Crypto
       \/ /\ EndsInDotCrypto(pure.domain)
          /\ Split(pure.domain)[1] # EmptyStr
          /\ \A i \in 1..Len(BeforeDotCrypto(pure.domain)) : pure.domain[i] # LF)

C7_Witness ==
  /\ pure.fn = "isSupportedDomain"
  /\ pure.domain = <<DOT, "a">> \o DotCrypto
  /\ ~pure.supported

\* C8 as stated: resolve fails at once with the structured error of kind
\* MethodNotSupported and issues no contract call.
C8_MethodNotSupported ==
  \A p \in Procs :
    op[p] = "resolve" =>
      /\ pc[p] = "done" /\ log[p] = <<>>
      /\ Failed(p, "MethodNotSupported")

\* C9: namehash("crypto") is childhash of the all-zero root hash and
\* "crypto", and for a supported parent domain and a label, childhash of the
\* parent's namehash and the label is the namehash of label + "." + parent.
C9_NamehashIsChildhashFold ==
  pure.fn = "childhash" =>
    IF pure.domain = NoField
    THEN pure.label = Crypto => namehash(Crypto) = pure.out
    ELSE namehash(pure.label \o <<DOT>> \o pure.domain) = pure.out

C9_Witness ==
  /\ pure.fn = "childhash"
  /\ pure.domain = <<"-", DOT, "a">> \o DotCrypto
  /\ pure.label = <<"a", "-">>
  /\ pure.out.tag = "return"

\* an operation run from its call to its end with no other call about
RunAlone(o, a) ==
  LET s1 == StartStep(o, a)
      s2 == IF s1.pc = "done" THEN Finish(s1.result)
            ELSE ResumeStep(o, a, s1.pc, s1.local, callMethod(s1.local.pending))
      s3 == IF s2.pc = "done" THEN Finish(s2.result)
            ELSE ResumeStep(o, a, s2.pc, s2.local, callMethod(s2.local.pending))
  IN [log |-> s1.calls \o s2.calls \o s3.calls, result |-> s3.result]

\* C10: whatever the interleaving, a call ends with the outcome it has when
\* run alone and issues every contract call it issues when run alone, and
\* two identical calls end with identical outcomes.
C10_CallsIndependent ==
  /\ \A p \in Procs :
       pc[p] # "idle" =>
         LET alone == RunAlone(op[p], arg[p])
         IN IF pc[p] = "done"
            THEN result[p] = alone.result /\ log[p] = alone.log
            ELSE /\ Len(log[p]) <= Len(alone.log)
                 /\ log[p] = SubSeq(alone.log, 1, Len(log[p]))
  /\ \A p, q \in Procs :
       (pc[p] = "done" /\ pc[q] = "done" /\ op[p] = op[q] /\ arg[p] = arg[q]) =>
         result[p] = result[q]

C10_Witness ==
  \E p, q \in Procs :
    /\ p # q
    /\ Done(p, "record") /\ Done(q, "record") /\ arg[p] = arg[q]
    /\ result[p] = Return(StoredValue)
    /\ Len(log[p]) = 2 /\ Len(log[q]) = 2

\* C11: a construction whose source has no network or no url fails, and
\* fails with a structured ConfigurationError; no service is ever built
\* with an empty network or url.
C11_ConfigurationError ==
  /\ (service.state # "none" /\ (Falsy(service.network) \/ Falsy(service.url))) =>
       service.state = "failed"
  /\ service.state = "failed" =>
       (service.error.structured /\ service.error.kind = "ConfigurationError")

\* C12: ipfsHash, email and httpUrl of a domain issue the contract calls and
\* end with the value or the error of record of that domain with the key
\* "ipfs.html.value", "whois.email.value" and "ipfs.redirect_domain.value".
C12_AliasesOfRecord ==
  \A p \in Procs :
    /\ Done(p, "ipfsHash") =>
         LET alone == RunAlone("record", Args(arg[p].domain, IpfsKey, NoField))
         IN log[p] = alone.log /\ result[p] = alone.result
    /\ Done(p, "email") =>
         LET alone == RunAlone("record", Args(arg[p].domain, EmailKey, NoField))
         IN log[p] = alone.log /\ result[p] = alone.result
    /\ Done(p, "httpUrl") =>
         LET alone == RunAlone("record", Args(arg[p].domain, RedirectKey, NoField))
         IN log[p] = alone.log /\ result[p] = alone.result

\* httpUrl ends with a record-not-found error that names its key
C12_Witness ==
  \E p \in Procs :
    /\ Done(p, "httpUrl")
    /\ Len(log[p]) = 2
    /\ result[p] =
         Throw(ResolutionError("RecordNotFound", arg[p].domain, RedirectKey, NoField))

\* the places of the ownerOf calls among the contract calls of a caller
OwnerOfCalls(p) == {i \in 1..Len(log[p]) : log[p][i].method = "ownerOf"}

\* C13: an operation that discovers the resolver (any but owner itself)
\* issues ownerOf at most once, and only as the call after a resolverOf that
\* came back with no resolver or a null address; when resolverOf came back
\* with a resolver address the operation issues no ownerOf.
C13_OwnerOfOnlyAfterAbsentResolver ==
  \A p \in Procs :
    (pc[p] # "idle" /\ op[p] # "owner") =>
      /\ Cardinality(OwnerOfCalls(p)) <= 1
      /\ \A i \in OwnerOfCalls(p) :
           /\ i = 2
           /\ log[p][1].method = "resolverOf"
           /\ getResolverSettled(callMethod(log[p][1])).ok
           /\ LET resolver == getResolverSettled(callMethod(log[p][1])).val
              IN Falsy(resolver) \/ isNullAddress(resolver)
      /\ (Len(log[p]) > 0 /\ callMethod(log[p][1]) = Ok(ResolverAddr)) =>
           OwnerOfCalls(p) = {}

\* resolver found a null resolver address, then asked for the owner
C13_Witness ==
  \E p \in Procs :
    /\ Done(p, "resolver")
    /\ backend.resolverOf = Ok(NullAddress[2])
    /\ Len(log[p]) = 2
    /\ OwnerOfCalls(p) = {2}

\* the operations that run getResolver
DiscoveryOps == RecordOps \cup {"address", "resolver"}

\* C14: getResolver yields an absent resolver when resolverOf fails with
\* RecordNotFound, and only then: a resolverOf failure of any other kind ends
\* record, address (and resolver) with that very error, kind and context
\* unchanged, and with no further contract call.
C14_OnlyRecordNotFoundSwallowed ==
  \A p \in Procs :
    (op[p] \in DiscoveryOps /\ Len(log[p]) > 0 /\ pc[p] # "resolverOf") =>
      LET answer == callMethod(log[p][1])
      IN /\ log[p][1].method = "resolverOf"
         /\ (~answer.ok /\ answer.err # TransportRecordNotFound) =>
              (pc[p] = "done" /\ result[p] = Throw(answer.err) /\ Len(log[p]) = 1)
         /\ answer = Fail(TransportRecordNotFound) =>
              \/ Len(log[p]) = 2
              \/ pc[p] = "done" /\ result[p].tag = "throw" /\ result[p].err # answer.err

\* record ended with the failure resolverOf came back with
C14_Witness ==
  \E p \in Procs :
    /\ Done(p, "record")
    /\ backend.resolverOf = Fail(TransportDown)
    /\ result[p] = Throw(TransportDown)
    /\ Len(log[p]) = 1

\* C15: when getResolver yields no resolver for a supported domain, record
\* (called directly or through an alias) fails with RecordNotFound, after a
\* get on a contract built with no address; a get that itself fails with an
\* error of another kind is out of the claim's case, that error propagates.
C15_NoResolverIsRecordNotFound ==
  \A p \in Procs :
    (/\ pc[p] = "done" /\ op[p] \in RecordOps
     /\ isSupportedDomain(arg[p].domain)
     /\ getResolverSettled(backend.resolverOf) = Ok(Undefined)) =>
      /\ Len(log[p]) = 2
      /\ log[p][2].contract = buildContract("resolverInterface", Undefined)
      /\ LET answer == callMethod(log[p][2])
         IN (answer.ok \/ answer.err.kind = "RecordNotFound") =>
              Failed(p, "RecordNotFound")

\* record found no resolver and failed with RecordNotFound for its key
C15_Witness ==
  \E p \in Procs :
    /\ Done(p, "record")
    /\ backend.resolverOf = Fail(TransportRecordNotFound)
    /\ backend.getNoContract = Ok(Undefined)
    /\ Len(log[p]) = 2
    /\ log[p][2].contract.address = Undefined
    /\ result[p] =
         Throw(ResolutionError("RecordNotFound", arg[p].domain, arg[p].key, NoField))

\* C16: every contract call that owner, record (or an alias of it) or
\* address issues for a domain carries the namehash of the domain as its
\* node hash (the one parameter of resolverOf and ownerOf, the second of
\* get), never the domain string itself.
C16_CallsCarryNamehash ==
  \A p \in Procs :
    op[p] \in RecordOps \cup {"owner", "address"} =>
      \A i \in 1..Len(log[p]) :
        LET params == log[p][i].params
            node == params[Len(params)]
        IN /\ node # arg[p].domain
           /\ namehash(arg[p].domain) = Return(node)

\* C17: once a service is constructed, every registry call (resolverOf,
\* ownerOf) is issued on a defined registry contract, the one built with the
\* registry address of the service; no service built for a network with no
\* registry address of its own or of RegistryMap issues a registry call on
\* an undefined contract.
C17_RegistryContractDefined ==
  \A p \in Procs :
    \A i \in 1..Len(log[p]) :
      log[p][i].method \in {"resolverOf", "ownerOf"} =>
        /\ service.state = "constructed"
        /\ log[p][i].contract # NoContract
        /\ ~Falsy(service.registryAddress)
        /\ log[p][i].contract = buildContract("cnsInterface", service.registryAddress)

====
